---- MODULE Spec2Model ----
(***************************************************************************)
(* SpaceTranslatorRelayPlugin: an HLS decoder feeds pcmBuffer, an interval *)
(* timer flushes it into per-chunk STT -> translation -> TTS runs, the     *)
(* results go through ttsQueue and are paced to Janus in 10 ms frames.     *)
(*                                                                         *)
(* One step of the model is one turn of the Node event loop: a handler or  *)
(* the continuation of an await, run to its next suspension point.         *)
(***************************************************************************)
EXTENDS Integers, Sequences, FiniteSets, TLC

\* ---- bounds of the model ------------------------------------------------
MaxReady == 2        \* onJanusReady() calls
MaxCleanups == 1     \* cleanup() calls
MaxBytes == 3        \* bytes the decoders deliver in total
MaxTicks == 2        \* interval callbacks that fire
MaxFrames == 52      \* frames the sink records (caps a zero-size frame loop)
MaxLen == 7          \* longest small sample sequence given to the pacer
MaxInFlight == 3     \* pipeline runs in flight in the playback model

\* ---- inputs drawn from small sets ----------------------------------------
DataSizes == {1, 2}                      \* bytes per stdout "data" event
RecognizedTexts == {"", "hello"}         \* data.text.trim() of Whisper
TtsLens == {0, 1000}                     \* samples ffmpeg decodes from the MP3
\* <<sampleRate, channels>> of the session models: frames of 12000 samples,
\* so that the fallback tone is paced in two delays and not in fifty.
SessionConfigs == {<<48000, 25>>}
SmallRates == {50, 100, 200, 300}
SmallChannels == {1, 2}
PacerInputs ==
    {<<sr, ch, l>> : sr \in SmallRates, ch \in SmallChannels, l \in 0..MaxLen}
    \cup {<<48000, 1, l>> : l \in {0, 479, 480, 481, 2000, 24000}}
\* <<sampleRate, channels>> of the sessions that play the fallback tone
BeepConfigs == {<<48000, 1>>, <<96000, 1>>}

VARIABLES
    sampleRate, channels,      \* this.sampleRate, this.channels
    openaiKey, elevenKey,      \* OPENAI_KEY / ELEVENLABS_KEY are set
    janus,                     \* this.janus is defined
    isStreaming, pcmBuffer, flushTimer, ttsQueue, ttsProcessing,
    ffmpegProcess,             \* index into procs, 0 = undefined
    procs,                     \* every decoder process spawned so far
    timers,                    \* ids of the intervals that are still armed
    timersCreated,             \* setInterval calls so far
    runs,                      \* every flushChunkForTranslation run that drained
    consumers,                 \* processTtsQueue loops suspended in a pacing delay
    sinkLog,                   \* frames handed to janus.pushLocalAudio, in order
    \* history
    appended,                  \* every byte the data handler received, in order
    ticks,                     \* interval callbacks fired
    cleanups,                  \* cleanup() calls
    stopped,                   \* cleanup() ran and onJanusReady() has not since
    enqueued,                  \* entries pushed to ttsQueue, in push order
    dispatched,                \* entries shifted from ttsQueue, in shift order
    discarded                  \* ids that cleanup() removed from ttsQueue

vars == <<sampleRate, channels, openaiKey, elevenKey, janus, isStreaming,
          pcmBuffer, flushTimer, ttsQueue, ttsProcessing, ffmpegProcess, procs,
          timers, timersCreated, runs, consumers, sinkLog, appended,
          ticks, cleanups, stopped, enqueued, dispatched, discarded>>

config == <<sampleRate, channels, openaiKey, elevenKey>>
decoder == <<isStreaming, ffmpegProcess, procs>>
playback == <<ttsQueue, ttsProcessing, consumers, sinkLog, enqueued,
              dispatched>>

\* ---- helpers --------------------------------------------------------------
CeilDiv(a, b) == (a + b - 1) \div b

RECURSIVE Flatten(_)
Flatten(ss) == IF ss = <<>> THEN <<>> ELSE Head(ss) \o Flatten(Tail(ss))

\* ---- syntheticBeepPcm -------------------------------------------------------
BeepSampleRate == 48000
BeepDurationMs == 500
syntheticBeepLen == (BeepSampleRate * BeepDurationMs) \div 1000

\* ---- sendTtsPcmToJanus ------------------------------------------------------
\* frameSizeSamples = Math.floor(this.sampleRate * 0.01) * this.channels
frameSizeSamples == (sampleRate \div 100) * channels

\* Frame that copies rawPcm[i] instead of rawPcm[offset + i].
Frame_fromStart(id, start, copied, size) ==
    [entry |-> id, start |-> 0, copied |-> copied, size |-> size]

\* A frame is new Int16Array(size) whose first `copied` cells hold the
\* samples rawPcm[start .. start + copied - 1]; the other cells stay 0.
Frame(id, start, copied, size) ==
    [entry |-> id, start |-> start, copied |-> copied, size |-> size]

\* this.janus.pushLocalAudio(...) of lines 489 and 499: with this.janus
\* undefined the member access throws a TypeError and the call of
\* sendTtsPcmToJanus ends there.
pushLocalAudio(push) == IF janus THEN push ELSE [kind |-> "throw"]

\* sendTtsPcmToJanus without the padded remainder (lines 494-502 left out).
sendTtsPcmToJanus_noPad(pcm, offset, at) ==
    LET F == frameSizeSamples
    IN  IF at = "entry" /\ ~janus THEN [kind |-> "return"]
        ELSE IF at = "pad" THEN [kind |-> "return"]
        ELSE IF offset + F <= pcm.len
             THEN pushLocalAudio(
                      [kind |-> "push", frame |-> Frame(pcm.id, offset, F, F),
                       offset |-> offset + F, at |-> "loop"])
        ELSE [kind |-> "return"]

\* One run of sendTtsPcmToJanus from a resumption point to the next
\* suspension point.  at = "entry": the function is called (the test of
\* line 472 comes first); at = "loop": back from the delay of line 490, the
\* while condition is evaluated; at = "pad": back from the delay of line 501.
sendTtsPcmToJanus(pcm, offset, at) ==
    LET F == frameSizeSamples
        leftover == pcm.len - offset
    IN  IF at = "entry" /\ ~janus THEN [kind |-> "return"]
        ELSE IF at = "pad" THEN [kind |-> "return"]
        ELSE IF offset + F <= pcm.len
             THEN pushLocalAudio(
                      [kind |-> "push", frame |-> Frame(pcm.id, offset, F, F),
                       offset |-> offset + F, at |-> "loop"])
        ELSE IF leftover > 0 /\ leftover < F
             THEN pushLocalAudio(
                      [kind |-> "push",
                       frame |-> Frame(pcm.id, offset, leftover, F),
                       offset |-> offset, at |-> "pad"])
        ELSE [kind |-> "return"]

\* ---- processTtsQueue ----------------------------------------------------------
\* consumerLoop taking the newest entry (pop) instead of the oldest (shift).
RECURSIVE consumerLoop_lifo(_, _, _)
consumerLoop_lifo(queue, log, disp) ==
    IF queue = <<>>
    THEN [queue |-> queue, log |-> log, disp |-> disp, cons |-> {},
          finished |-> TRUE]
    ELSE LET nextPcm == queue[Len(queue)]
             rest == SubSeq(queue, 1, Len(queue) - 1)
             s == sendTtsPcmToJanus(nextPcm, 0, "entry")
             disp1 == Append(disp, nextPcm)
         IN  IF s.kind = "return"
             THEN consumerLoop_lifo(rest, log, disp1)
             ELSE [queue |-> rest, log |-> Append(log, s.frame),
                   disp |-> disp1,
                   cons |-> {[pcm |-> nextPcm, offset |-> s.offset, at |-> s.at]},
                   finished |-> FALSE]

\* The while loop of processTtsQueue, run until it suspends in a pacing
\* delay or finds the queue empty (finished: the statement after the loop
\* is reached).
\* `if (!nextPcm) continue` never fires: an Int16Array is truthy.
RECURSIVE consumerLoop(_, _, _)
consumerLoop(queue, log, disp) ==
    IF queue = <<>>
    THEN [queue |-> queue, log |-> log, disp |-> disp, cons |-> {},
          finished |-> TRUE]
    ELSE LET nextPcm == Head(queue)
             s == sendTtsPcmToJanus(nextPcm, 0, "entry")
             disp1 == Append(disp, nextPcm)
         IN  IF s.kind = "return"
             THEN consumerLoop(Tail(queue), log, disp1)
             ELSE [queue |-> Tail(queue), log |-> Append(log, s.frame),
                   disp |-> disp1,
                   cons |-> {[pcm |-> nextPcm, offset |-> s.offset, at |-> s.at]},
                   finished |-> FALSE]

\* loopExit without line 464: the flag is never reset.
loopExit_stuck(flag, finished) == flag

\* The value of ttsProcessing when the loop is left: line 464 resets it once
\* the queue was found empty, a suspended loop leaves it as it is.
loopExit(flag, finished) == IF finished THEN FALSE ELSE flag

\* processTtsQueue without the guard of line 455.
processTtsQueue_noFlag(queue) ==
    LET r == consumerLoop(queue, sinkLog, dispatched)
    IN  /\ ttsQueue' = r.queue
        /\ ttsProcessing' = loopExit(TRUE, r.finished)
        /\ consumers' = consumers \cup r.cons
        /\ sinkLog' = r.log
        /\ dispatched' = r.disp

\* processTtsQueue() called with `queue` as this.ttsQueue.
processTtsQueue(queue) ==
    IF ttsProcessing
    THEN /\ ttsQueue' = queue
         /\ UNCHANGED <<ttsProcessing, consumers, sinkLog, dispatched>>
    ELSE LET r == consumerLoop(queue, sinkLog, dispatched)
         IN  /\ ttsQueue' = r.queue
             /\ ttsProcessing' = loopExit(TRUE, r.finished)
             /\ consumers' = consumers \cup r.cons
             /\ sinkLog' = r.log
             /\ dispatched' = r.disp

\* A pacing delay (setTimeout of line 490 or 501) of consumer c elapses.
PaceDelay(c) ==
    /\ c \in consumers
    /\ Len(sinkLog) < MaxFrames
    /\ LET s == sendTtsPcmToJanus(c.pcm, c.offset, c.at)
       IN  IF s.kind = "push"
           THEN /\ consumers' = (consumers \ {c}) \cup
                       {[pcm |-> c.pcm, offset |-> s.offset, at |-> s.at]}
                /\ sinkLog' = Append(sinkLog, s.frame)
                /\ UNCHANGED <<ttsQueue, ttsProcessing, dispatched>>
           ELSE IF s.kind = "throw"
           \* processTtsQueue has no try block: the rejection leaves the
           \* loop before line 464 and ends in the catch of lines 406-411.
           THEN /\ consumers' = consumers \ {c}
                /\ UNCHANGED <<ttsQueue, ttsProcessing, sinkLog, dispatched>>
           ELSE LET r == consumerLoop(ttsQueue, sinkLog, dispatched)
                IN  /\ ttsQueue' = r.queue
                    /\ ttsProcessing' = loopExit(ttsProcessing, r.finished)
                    /\ consumers' = (consumers \ {c}) \cup r.cons
                    /\ sinkLog' = r.log
                    /\ dispatched' = r.disp
    /\ UNCHANGED <<config, janus, decoder, pcmBuffer, flushTimer, timers,
                   timersCreated, runs, appended, ticks, cleanups,
                   stopped, enqueued, discarded>>

PaceStep == \E c \in consumers : PaceDelay(c)

\* ---- the three capabilities ---------------------------------------------------
Translated(text) == "bonjour"

Tag(r, t) == [r EXCEPT !.tags = @ \cup {t}]

\* elevenLabsTts up to its first await, or to its return without one.
elevenLabsTts(r) ==
    LET r1 == [r EXCEPT !.synth = TRUE]
    IN  IF ~elevenKey
        THEN [Tag(r1, "tts_nokey") EXCEPT !.pc = "push",
                 !.pcmLen = syntheticBeepLen, !.fallback = TRUE]
        ELSE [r1 EXCEPT !.pc = "tts"]

\* libreTranslate without the early return of line 78.
libreTranslate_always(r) ==
    [r EXCEPT !.pc = "translate", !.trCalls = @ + 1]

\* libreTranslate up to its fetch, or to its return without one; the
\* translated text is then passed to elevenLabsTts.
libreTranslate(r) ==
    IF r.recognized = ""
    THEN elevenLabsTts([r EXCEPT !.translated = ""])
    ELSE [r EXCEPT !.pc = "translate", !.trCalls = @ + 1]

\* openAiStt up to its fetch, or to its return without one; the recognized
\* text is then passed to libreTranslate.
openAiStt(r) ==
    IF ~openaiKey
    THEN libreTranslate([Tag(r, "stt_nokey") EXCEPT !.recognized = ""])
    ELSE [r EXCEPT !.pc = "stt"]

\* ---- flushChunkForTranslation ---------------------------------------------------
\* NewRun that submits an empty chunk instead of the drained bytes.
NewRun_stale(chunkBuf) ==
    [chunk |-> <<>>, pc |-> "wav", recognized |-> "?", translated |-> "?",
     trCalls |-> 0, synth |-> FALSE, pcmLen |-> 0, fallback |-> FALSE,
     tags |-> {}]

\* Lines 385-389: the pipeline run started for the drained chunk.
NewRun(chunkBuf) ==
    [chunk |-> chunkBuf, pc |-> "wav", recognized |-> "?", translated |-> "?",
     trCalls |-> 0, synth |-> FALSE, pcmLen |-> 0, fallback |-> FALSE,
     tags |-> {}]

InFlight(i) == runs[i].pc \in {"wav", "stt", "translate", "tts", "mp3"}

\* flushSkips that also returns while an earlier run is still in flight.
flushSkips_busy ==
    pcmBuffer = <<>> \/ \E i \in 1..Len(runs) : InFlight(i)

\* Line 380: the flush returns without draining.
flushSkips == pcmBuffer = <<>>

\* bufferAfterDrain that keeps the drained bytes in the buffer.
bufferAfterDrain_kept == pcmBuffer

\* Line 386: this.pcmBuffer after the drain.
bufferAfterDrain == <<>>

\* The interval callback of timer t: lines 379-389, up to the first await.
FlushTick(t) ==
    /\ t \in timers
    /\ ticks < MaxTicks
    /\ ticks' = ticks + 1
    /\ IF flushSkips
       THEN UNCHANGED <<pcmBuffer, runs>>
       ELSE /\ runs' = Append(runs, NewRun(pcmBuffer))
            /\ pcmBuffer' = bufferAfterDrain
    /\ UNCHANGED <<config, janus, decoder, flushTimer, timers, timersCreated,
                   playback, appended, cleanups, stopped,
                   discarded>>

\* ttsQueuePush that holds the audio of a chunk back while the run of an
\* earlier chunk is still in flight.
ttsQueuePush_inOrder(entry) ==
    IF \E i \in 1..Len(runs) : i < entry.id /\ InFlight(i)
    THEN ttsQueue
    ELSE Append(ttsQueue, entry)

\* Line 405: this.ttsQueue.push(ttsPcm).
ttsQueuePush(entry) == Append(ttsQueue, entry)

\* Run i goes on after an await with the record r: it either suspends again,
\* ends in the catch block (pc = "failed"), or reaches lines 403-411
\* (pc = "push"), where its audio is queued and processTtsQueue() is called.
Continue(i, r) ==
    /\ IF r.pc = "push"
       THEN /\ runs' = [runs EXCEPT ![i] = [r EXCEPT !.pc = "queued"]]
            /\ enqueued' = Append(enqueued, [id |-> i, len |-> r.pcmLen])
            /\ processTtsQueue(ttsQueuePush([id |-> i, len |-> r.pcmLen]))
       ELSE /\ runs' = [runs EXCEPT ![i] = r]
            /\ UNCHANGED playback
    /\ UNCHANGED <<config, janus, decoder, pcmBuffer, flushTimer, timers,
                   timersCreated, appended, ticks, cleanups,
                   stopped, discarded>>

Failed(r, t) == [Tag(r, t) EXCEPT !.pc = "failed"]

\* convertPcmToWav settles: ffmpeg closed with code 0, or not.
WavClose(i) ==
    /\ i \in 1..Len(runs) /\ runs[i].pc = "wav"
    /\ \E ok \in BOOLEAN :
          Continue(i, IF ok THEN openAiStt(runs[i])
                      ELSE Failed(runs[i], "wav_fail"))

\* The fetch of openAiStt settles: it rejects, answers !ok, or answers text.
SttResponse(i) ==
    /\ i \in 1..Len(runs) /\ runs[i].pc = "stt"
    /\ \/ Continue(i, Failed(runs[i], "stt_raise"))
       \/ Continue(i, libreTranslate(
                         [Tag(runs[i], "stt_err") EXCEPT !.recognized = ""]))
       \/ \E text \in RecognizedTexts :
             Continue(i, libreTranslate([runs[i] EXCEPT !.recognized = text]))

\* The fetch of libreTranslate settles.
TranslateResponse(i) ==
    /\ i \in 1..Len(runs) /\ runs[i].pc = "translate"
    /\ \/ Continue(i, Failed(runs[i], "tr_raise"))
       \/ Continue(i, elevenLabsTts(
                         [Tag(runs[i], "tr_err") EXCEPT
                              !.translated = runs[i].recognized]))
       \/ Continue(i, elevenLabsTts(
                         [runs[i] EXCEPT
                              !.translated = Translated(runs[i].recognized)]))

\* The fetch of elevenLabsTts settles.
TtsResponse(i) ==
    /\ i \in 1..Len(runs) /\ runs[i].pc = "tts"
    /\ \/ Continue(i, Failed(runs[i], "tts_raise"))
       \/ Continue(i, [Tag(runs[i], "tts_err") EXCEPT !.pc = "push",
                          !.pcmLen = syntheticBeepLen, !.fallback = TRUE])
       \/ Continue(i, [runs[i] EXCEPT !.pc = "mp3"])

\* convertMp3ToPcm settles: ffmpeg closed with code 0 and n samples, or not.
Mp3Close(i) ==
    /\ i \in 1..Len(runs) /\ runs[i].pc = "mp3"
    /\ \/ Continue(i, Failed(runs[i], "mp3_fail"))
       \/ \E n \in TtsLens :
             Continue(i, [runs[i] EXCEPT !.pc = "push", !.pcmLen = n])

\* ---- the decoder ------------------------------------------------------------
\* startHlsReading, called from onJanusReady right after this.janus was set
\* (the branch of line 317 is not taken); spawn always returns a process.
startHlsReading(j) ==
    IF isStreaming \/ ~j
    THEN UNCHANGED decoder
    ELSE /\ isStreaming' = TRUE
         /\ procs' = Append(procs, [state |-> "running", killed |-> FALSE])
         /\ ffmpegProcess' = Len(procs) + 1

\* onJanusReady(janus); j tells whether the argument is a client (the code
\* tests this.janus for undefined in lines 317 and 472).
OnJanusReady(j) ==
    /\ timersCreated < MaxReady
    /\ janus' = j
    /\ startHlsReading(j)
    /\ timersCreated' = timersCreated + 1
    /\ timers' = timers \cup {timersCreated + 1}
    /\ flushTimer' = timersCreated + 1
    /\ stopped' = FALSE
    /\ UNCHANGED <<config, pcmBuffer, runs, playback, appended,
                   ticks, cleanups, discarded>>

\* stdout "data" of process p.  A process that was sent a signal can still
\* deliver what it had written until its "close" event.
DecoderData(p) ==
    /\ p \in 1..Len(procs) /\ procs[p].state = "running"
    /\ \E n \in DataSizes :
          /\ Len(appended) + n <= MaxBytes
          /\ LET chunk == [k \in 1..n |-> Len(appended) + k]
             IN  /\ pcmBuffer' = pcmBuffer \o chunk
                 /\ appended' = appended \o chunk
    /\ UNCHANGED <<config, janus, decoder, flushTimer, timers, timersCreated,
                   runs, playback, ticks, cleanups, stopped,
                   discarded>>

DecoderClose_flush(p) ==
    /\ p \in 1..Len(procs) /\ procs[p].state = "running"
    /\ procs' = [procs EXCEPT ![p].state = "exited"]
    /\ isStreaming' = FALSE
    /\ ttsQueue' = <<>>
    /\ UNCHANGED <<config, janus, ffmpegProcess, pcmBuffer, flushTimer, timers,
                   timersCreated, runs, ttsProcessing, consumers, sinkLog,
                   enqueued, dispatched, appended, ticks,
                   cleanups, stopped, discarded>>

\* "close" of process p.
DecoderClose(p) ==
    /\ p \in 1..Len(procs) /\ procs[p].state = "running"
    /\ procs' = [procs EXCEPT ![p].state = "exited"]
    /\ isStreaming' = FALSE
    /\ UNCHANGED <<config, janus, ffmpegProcess, pcmBuffer, flushTimer, timers,
                   timersCreated, runs, playback, appended, ticks,
                   cleanups, stopped, discarded>>

\* "error" of process p (it could not be spawned); no event follows it.
DecoderError(p) ==
    /\ p \in 1..Len(procs) /\ procs[p].state = "running"
    /\ procs' = [procs EXCEPT ![p].state = "exited"]
    /\ isStreaming' = FALSE
    /\ UNCHANGED <<config, janus, ffmpegProcess, pcmBuffer, flushTimer, timers,
                   timersCreated, runs, playback, appended, ticks,
                   cleanups, stopped, discarded>>

\* ---- cleanup -------------------------------------------------------------------
Cleanup ==
    /\ cleanups < MaxCleanups
    /\ procs' = IF ffmpegProcess # 0 /\ ~procs[ffmpegProcess].killed
                THEN [procs EXCEPT ![ffmpegProcess].killed = TRUE]
                ELSE procs
    /\ timers' = timers \ {flushTimer}
    /\ flushTimer' = 0
    /\ isStreaming' = FALSE
    /\ pcmBuffer' = <<>>
    /\ ttsQueue' = <<>>
    /\ ttsProcessing' = FALSE
    /\ discarded' = discarded \cup {ttsQueue[k].id : k \in 1..Len(ttsQueue)}
    /\ cleanups' = cleanups + 1
    /\ stopped' = TRUE
    /\ UNCHANGED <<config, janus, ffmpegProcess, timersCreated, runs,
                   consumers, sinkLog, appended, ticks, enqueued, dispatched>>

\* ---- the session ------------------------------------------------------------------
Init ==
    /\ \E cfg \in SessionConfigs : sampleRate = cfg[1] /\ channels = cfg[2]
    /\ openaiKey \in BOOLEAN
    /\ elevenKey \in BOOLEAN
    /\ janus = FALSE
    /\ isStreaming = FALSE
    /\ pcmBuffer = <<>>
    /\ flushTimer = 0
    /\ ttsQueue = <<>>
    /\ ttsProcessing = FALSE
    /\ ffmpegProcess = 0
    /\ procs = <<>>
    /\ timers = {}
    /\ timersCreated = 0
    /\ runs = <<>>
    /\ consumers = {}
    /\ sinkLog = <<>>
    /\ appended = <<>>
    /\ ticks = 0
    /\ cleanups = 0
    /\ stopped = FALSE
    /\ enqueued = <<>>
    /\ dispatched = <<>>
    /\ discarded = {}

Next ==
    \/ \E j \in BOOLEAN : OnJanusReady(j)
    \/ \E p \in 1..Len(procs) : DecoderData(p)
    \/ \E p \in 1..Len(procs) : DecoderClose(p)
    \/ \E p \in 1..Len(procs) : DecoderError(p)
    \/ \E t \in timers : FlushTick(t)
    \/ \E i \in 1..Len(runs) : WavClose(i)
    \/ \E i \in 1..Len(runs) : SttResponse(i)
    \/ \E i \in 1..Len(runs) : TranslateResponse(i)
    \/ \E i \in 1..Len(runs) : TtsResponse(i)
    \/ \E i \in 1..Len(runs) : Mp3Close(i)
    \/ PaceStep
    \/ Cleanup

Spec == Init /\ [][Next]_vars

\* ---- the relay between onJanusReady() and cleanup() ------------------------------
\* The session right after the first onJanusReady(): the decoder runs and
\* one flush timer is armed.
InitRelay ==
    /\ \E cfg \in SessionConfigs : sampleRate = cfg[1] /\ channels = cfg[2]
    /\ openaiKey \in BOOLEAN
    /\ elevenKey \in BOOLEAN
    /\ janus = TRUE
    /\ isStreaming = TRUE
    /\ pcmBuffer = <<>>
    /\ flushTimer = 1
    /\ ttsQueue = <<>>
    /\ ttsProcessing = FALSE
    /\ ffmpegProcess = 1
    /\ procs = <<[state |-> "running", killed |-> FALSE]>>
    /\ timers = {1}
    /\ timersCreated = 1
    /\ runs = <<>>
    /\ consumers = {}
    /\ sinkLog = <<>>
    /\ appended = <<>>
    /\ ticks = 0
    /\ cleanups = 0
    /\ stopped = FALSE
    /\ enqueued = <<>>
    /\ dispatched = <<>>
    /\ discarded = {}

\* Decoder data, flush ticks, the stages of the runs and the pacing delays.
NextRelay ==
    \/ \E p \in 1..Len(procs) : DecoderData(p)
    \/ \E t \in timers : FlushTick(t)
    \/ \E i \in 1..Len(runs) : WavClose(i)
    \/ \E i \in 1..Len(runs) : SttResponse(i)
    \/ \E i \in 1..Len(runs) : TranslateResponse(i)
    \/ \E i \in 1..Len(runs) : TtsResponse(i)
    \/ \E i \in 1..Len(runs) : Mp3Close(i)
    \/ PaceStep

RelaySpec == InitRelay /\ [][NextRelay]_vars

\* ---- the playback side, from a session with MaxInFlight runs in flight ---------
\* The session after onJanusReady(), MaxInFlight one-byte chunks flushed and
\* every run suspended in the fetch of elevenLabsTts.
InFlightRun(i) ==
    [NewRun(<<i>>) EXCEPT !.pc = "tts", !.recognized = "hello",
        !.translated = "bonjour", !.trCalls = 1, !.synth = TRUE]

InitQueue ==
    /\ \E cfg \in SessionConfigs : sampleRate = cfg[1] /\ channels = cfg[2]
    /\ openaiKey = TRUE
    /\ elevenKey = TRUE
    /\ janus = TRUE
    /\ isStreaming = TRUE
    /\ pcmBuffer = <<>>
    /\ flushTimer = 1
    /\ ttsQueue = <<>>
    /\ ttsProcessing = FALSE
    /\ ffmpegProcess = 1
    /\ procs = <<[state |-> "running", killed |-> FALSE]>>
    /\ timers = {1}
    /\ timersCreated = 1
    /\ runs = [i \in 1..MaxInFlight |-> InFlightRun(i)]
    /\ consumers = {}
    /\ sinkLog = <<>>
    /\ appended = [i \in 1..MaxInFlight |-> i]
    /\ ticks = MaxInFlight
    /\ cleanups = 0
    /\ stopped = FALSE
    /\ enqueued = <<>>
    /\ dispatched = <<>>
    /\ discarded = {}

NextQueue ==
    \/ \E i \in 1..Len(runs) : TtsResponse(i)
    \/ \E i \in 1..Len(runs) : Mp3Close(i)
    \/ PaceStep
    \/ Cleanup

QueueSpec == InitQueue /\ [][NextQueue]_vars

\* The same runs in a session in which cleanup() is not called.
NextPlay ==
    \/ \E i \in 1..Len(runs) : TtsResponse(i)
    \/ \E i \in 1..Len(runs) : Mp3Close(i)
    \/ PaceStep

\* The pacing timers of Node fire: a suspended consumer is resumed.
QueueLive == InitQueue /\ [][NextPlay]_vars /\ WF_vars(PaceStep)

\* ---- the decoder exits while the playback side is busy -------------------------
\* The session after onJanusReady() with MaxBytes - 1 one-byte chunks flushed,
\* their runs suspended in the fetch of elevenLabsTts, and the decoder still
\* running: it can deliver one more byte, close, or fail.
InitDrain ==
    /\ \E cfg \in SessionConfigs : sampleRate = cfg[1] /\ channels = cfg[2]
    /\ openaiKey = TRUE
    /\ elevenKey = TRUE
    /\ janus = TRUE
    /\ isStreaming = TRUE
    /\ pcmBuffer = <<>>
    /\ flushTimer = 1
    /\ ttsQueue = <<>>
    /\ ttsProcessing = FALSE
    /\ ffmpegProcess = 1
    /\ procs = <<[state |-> "running", killed |-> FALSE]>>
    /\ timers = {1}
    /\ timersCreated = 1
    /\ runs = [i \in 1..(MaxBytes - 1) |-> InFlightRun(i)]
    /\ consumers = {}
    /\ sinkLog = <<>>
    /\ appended = [i \in 1..(MaxBytes - 1) |-> i]
    /\ ticks = MaxBytes - 1
    /\ cleanups = 0
    /\ stopped = FALSE
    /\ enqueued = <<>>
    /\ dispatched = <<>>
    /\ discarded = {}

NextDrain ==
    \/ \E p \in 1..Len(procs) : DecoderData(p)
    \/ \E p \in 1..Len(procs) : DecoderClose(p)
    \/ \E p \in 1..Len(procs) : DecoderError(p)
    \/ \E i \in 1..Len(runs) : TtsResponse(i)
    \/ \E i \in 1..Len(runs) : Mp3Close(i)
    \/ PaceStep

\* The pacing timers of Node fire: a suspended consumer is resumed.
DrainLive == InitDrain /\ [][NextDrain]_vars /\ WF_vars(PaceStep)

\* ---- the frame pacer on its own -----------------------------------------------
\* The state at line 406: one SynthesizedAudio of l samples was pushed to an
\* empty queue and processTtsQueue() is about to be called, for a range of
\* configured sample rates and channel counts.
\* <<sampleRate, channels, samples, fallback>>: the entry is either what
\* convertMp3ToPcm decoded or the tone of syntheticBeepPcm.
PacerStarts ==
    {<<inp[1], inp[2], inp[3], FALSE>> : inp \in PacerInputs}
    \cup {<<cfg[1], cfg[2], syntheticBeepLen, TRUE>> : cfg \in BeepConfigs}

InitPacer ==
    /\ \E inp \in PacerStarts :
          /\ sampleRate = inp[1]
          /\ channels = inp[2]
          /\ ttsQueue = <<[id |-> 1, len |-> inp[3]]>>
          /\ enqueued = <<[id |-> 1, len |-> inp[3]]>>
          /\ runs = <<[InFlightRun(1) EXCEPT !.pc = "queued",
                          !.pcmLen = inp[3], !.fallback = inp[4]]>>
    /\ openaiKey = TRUE
    /\ elevenKey = TRUE
    /\ janus = TRUE
    /\ isStreaming = TRUE
    /\ pcmBuffer = <<>>
    /\ flushTimer = 1
    /\ ttsProcessing = FALSE
    /\ ffmpegProcess = 1
    /\ procs = <<[state |-> "running", killed |-> FALSE]>>
    /\ timers = {1}
    /\ timersCreated = 1
    /\ consumers = {}
    /\ sinkLog = <<>>
    /\ appended = <<1>>
    /\ ticks = 1
    /\ cleanups = 0
    /\ stopped = FALSE
    /\ dispatched = <<>>
    /\ discarded = {}

\* Line 406: the call of processTtsQueue() that follows the push.
ProcessTtsQueueCall ==
    /\ ttsQueue # <<>> /\ dispatched = <<>> /\ ~ttsProcessing
    /\ processTtsQueue(ttsQueue)
    /\ UNCHANGED <<config, janus, decoder, pcmBuffer, flushTimer, timers,
                   timersCreated, runs, appended, ticks, cleanups, stopped,
                   enqueued, discarded>>

NextPacer ==
    \/ ProcessTtsQueueCall
    \/ PaceStep

PacerSpec == InitPacer /\ [][NextPacer]_vars

\* ============================ properties =====================================
EntryIds(q) == {q[k].id : k \in 1..Len(q)}

FramesOf(i) == {k \in 1..Len(sinkLog) : sinkLog[k].entry = i}

\* The frames of every entry are next to each other in the sink's log.
Contiguous(log) ==
    \A a, b \in 1..Len(log) :
        (a < b /\ log[a].entry = log[b].entry)
            => \A k \in a..b : log[k].entry = log[a].entry

\* C1: as long as cleanup() was not called, at most one entry is being
\* dispatched by sendTtsPcmToJanus, and no frame of one entry is pushed
\* between two frames of another entry.
C1_SingleDispatch ==
    cleanups = 0 => (Cardinality(consumers) <= 1 /\ Contiguous(sinkLog))

\* A run completed while another entry was being paced: its entry waits in
\* the queue behind the one whose frames are reaching the sink.
C1_Witness ==
    /\ cleanups = 0
    /\ consumers # {} /\ ttsQueue # <<>>
    /\ sinkLog # <<>>

\* C2: every run of the pipeline ends with exactly one SynthesizedAudio
\* pushed to ttsQueue, whatever failed: no run ends in the catch block, and
\* no run is queued twice.
C2_EveryChunkEnqueued ==
    \A i \in 1..Len(runs) :
        /\ runs[i].pc # "failed"
        /\ Cardinality({k \in 1..Len(enqueued) : enqueued[k].id = i}) <= 1
        /\ runs[i].pc = "queued" => i \in EntryIds(enqueued)

\* C3: entries leave ttsQueue in the order they were pushed, each at most
\* once: the entries dispatched so far followed by the waiting ones are the
\* pushed ones, without those cleanup() removed, in push order.
C3_Fifo ==
    /\ dispatched \o ttsQueue =
           SelectSeq(enqueued, LAMBDA e : e.id \notin discarded)
    /\ \A a, b \in 1..Len(dispatched) :
           dispatched[a].id = dispatched[b].id => a = b

\* Three entries were dispatched, in an order that is not the flush order.
C3_Witness ==
    /\ Len(dispatched) = 3
    /\ dispatched[1].id # 1
    /\ cleanups = 0

\* C4: as long as cleanup() was not called, the chunks drained so far
\* followed by pcmBuffer are the appended bytes in arrival order, and no
\* empty chunk is ever submitted.
C4_NoByteLost ==
    cleanups = 0 =>
        /\ Flatten([i \in 1..Len(runs) |-> runs[i].chunk]) \o pcmBuffer
               = appended
        /\ \A i \in 1..Len(runs) : runs[i].chunk # <<>>

\* A chunk was drained, a tick found the buffer empty, and bytes arrived
\* after the drain.
C4_Witness ==
    /\ cleanups = 0
    /\ Len(runs) >= 1 /\ ticks > Len(runs)
    /\ pcmBuffer # <<>>

\* Entry i left the queue and all of its frames are in the sink's log.
FullySent(i) ==
    /\ i \in EntryIds(dispatched)
    /\ \A c \in consumers : c.pcm.id # i
    /\ \A k \in 1..Len(enqueued) :
           enqueued[k].id = i =>
               Cardinality(FramesOf(i)) =
                   CeilDiv(enqueued[k].len, frameSizeSamples)

\* C5: when the pacing timers fire and cleanup() is not called, every entry
\* pushed to ttsQueue is eventually removed and fully sent to the sink.
C5_NoStranding ==
    \A i \in 1..MaxInFlight :
        (i \in EntryIds(enqueued)) ~> (FullySent(i) \/ cleanups > 0)

\* Every run was queued and fully sent, and the consumer has stopped.
C5_Witness ==
    /\ cleanups = 0
    /\ Len(enqueued) = MaxInFlight
    /\ \A i \in 1..MaxInFlight : FullySent(i)
    /\ ~ttsProcessing /\ consumers = {}

\* A tick that drains the buffer and starts a run.
FlushDrains ==
    \E t \in timers :
        FlushTick(t) /\ pcmBuffer' = <<>> /\ Len(runs') = Len(runs) + 1

\* C6: whatever runs are in flight, a tick of an armed timer that finds
\* bytes in the buffer drains them and starts another run.
C6_TickNeverWaits ==
    (timers # {} /\ pcmBuffer # <<>> /\ ticks < MaxTicks)
        => ENABLED FlushDrains

\* Two runs are in flight at once.
C6_Witness ==
    \E i, j \in 1..Len(runs) : i < j /\ InFlight(i) /\ InFlight(j)

RECURSIVE SumSizes(_)
SumSizes(log) == IF log = <<>> THEN 0 ELSE Head(log).size + SumSizes(Tail(log))

\* The pacer has returned from the only entry.
PacerDone == dispatched # <<>> /\ consumers = {} /\ ttsQueue = <<>>

\* C7: every frame pushed has frameSizeSamples samples, and for a frame size
\* of at least one sample an entry of L samples is sent as ceil(L / F) frames
\* whose total size is a multiple of F.
C7_FrameCount ==
    /\ \A k \in 1..Len(sinkLog) : sinkLog[k].size = frameSizeSamples
    /\ (PacerDone /\ frameSizeSamples > 0) =>
           /\ Len(sinkLog) = CeilDiv(enqueued[1].len, frameSizeSamples)
           /\ SumSizes(sinkLog) % frameSizeSamples = 0

\* L = 2000 and F = 480: five frames, four full and one padded.
C7_Witness ==
    /\ PacerDone
    /\ frameSizeSamples = 480 /\ enqueued[1].len = 2000
    /\ Len(sinkLog) = 5
    /\ \A k \in 1..4 : sinkLog[k].copied = 480
    /\ sinkLog[5].copied = 80 /\ sinkLog[5].size = 480

\* C8: once cleanup() has run (and onJanusReady() was not called again), no
\* flush timer is armed, every decoder process was terminated, and pcmBuffer
\* and ttsQueue are empty.
C8_CleanupStopsAll ==
    stopped =>
        /\ timers = {}
        /\ \A p \in 1..Len(procs) :
               procs[p].killed \/ procs[p].state = "exited"
        /\ pcmBuffer = <<>>
        /\ ttsQueue = <<>>

\* C9: a run whose translation call failed goes on with the untranslated
\* text and reaches elevenLabsTts.
C9_TranslateNeverDrops ==
    \A i \in 1..Len(runs) :
        (runs[i].tags \cap {"tr_err", "tr_raise"} # {}) =>
            /\ runs[i].translated = runs[i].recognized
            /\ runs[i].synth

\* C10: a run whose recognized text is empty made no translation call, has
\* an empty translated text and reached elevenLabsTts.
C10_EmptyTextNoCall ==
    \A i \in 1..Len(runs) :
        runs[i].recognized = "" =>
            /\ runs[i].trCalls = 0
            /\ runs[i].translated = ""
            /\ runs[i].synth

\* Recognize was unavailable or failed, and the run's audio was queued.
C10_Witness ==
    \E i \in 1..Len(runs) :
        /\ runs[i].recognized = ""
        /\ runs[i].tags \cap {"stt_nokey", "stt_err"} # {}
        /\ runs[i].synth /\ runs[i].pc = "queued"

\* Every decoder process has gone through its "close" or "error" event.
DecoderGone == \A p \in 1..Len(procs) : procs[p].state = "exited"

\* C11: once the decoder process has exited or failed no byte is appended to
\* pcmBuffer any more, the exit itself leaves the pipeline runs and the
\* playback queue untouched, and every entry pushed to ttsQueue, before or
\* after the exit, is still dispatched in push order and fully sent.
C11_DecoderExitKeepsPlayback ==
    /\ [][DecoderGone => appended' = appended]_vars
    /\ [][procs' # procs => UNCHANGED <<runs, playback>>]_vars
    /\ [](dispatched \o ttsQueue = enqueued)
    /\ \A i \in 1..(MaxBytes - 1) :
           (DecoderGone /\ i \in EntryIds(enqueued)) ~> FullySent(i)

\* The decoder has exited with bytes left in pcmBuffer, and every run that
\* was in flight has been queued and fully sent, not in flush order.
C11_Witness ==
    /\ DecoderGone
    /\ pcmBuffer # <<>>
    /\ Len(dispatched) = MaxBytes - 1
    /\ dispatched[1].id # 1
    /\ \A i \in 1..(MaxBytes - 1) : FullySent(i)

\* C12: the fallback tone has floor(sampleRate * 500 / 1000) samples of the
\* configured sampleRate, and the frame pacer emits 50 frames of 10 ms for it.
C12_BeepIs500ms ==
    \A i \in 1..Len(runs) :
        (runs[i].fallback /\ i \in EntryIds(dispatched)) =>
            /\ runs[i].pcmLen = (sampleRate * BeepDurationMs) \div 1000
            /\ PacerDone => Cardinality(FramesOf(i)) = BeepDurationMs \div 10

PacingDelays(i) == Cardinality(FramesOf(i))

\* C14: with or without a sink, sendTtsPcmToJanus has taken one 10 ms pacing
\* delay for each of the ceil(L / F) frames of an entry by the time it
\* returns and the next entry can be dispatched.
C14_PacedWithoutSink ==
    \A k \in 1..Len(dispatched) :
        (\A c \in consumers : c.pcm.id # dispatched[k].id)
            => PacingDelays(dispatched[k].id) =
                   CeilDiv(dispatched[k].len, frameSizeSamples)

\* C15: playback follows the order in which the pipeline runs complete: the
\* entries dispatched so far are the first ones pushed, in push order, and an
\* entry waits in ttsQueue only behind a running consumer, never for the run
\* of an earlier chunk; a later chunk can so be played before an earlier one.
C15_CompletionOrder ==
    /\ Len(dispatched) <= Len(enqueued)
    /\ \A k \in 1..Len(dispatched) : dispatched[k] = enqueued[k]
    /\ ttsQueue # <<>> => consumers # {}
    /\ \A i \in 1..Len(runs) :
           runs[i].pc = "queued" => i \in EntryIds(enqueued)

\* The chunk of the second tick completed first: its audio was dispatched
\* before the audio of the chunk of the first tick.
C15_Witness ==
    /\ Len(dispatched) = 2
    /\ dispatched[1].id = 2 /\ dispatched[2].id = 1
    /\ \E k \in 1..Len(sinkLog) : sinkLog[k].entry = 2

\* Cell j (1..size) of a frame, when the n-th sample of the source array is
\* the number n: the copied cells hold their source samples, the rest is 0.
FrameSample(fr, j) == IF j <= fr.copied THEN fr.start + j ELSE 0

\* C16: the frames pushed for an entry of L samples, put one after the other
\* in push order, are the samples 1..L in their order followed by zeros
\* only, and once the pacer has returned no sample is missing.
C16_FramesAreInputThenZeros ==
    LET F == frameSizeSamples
        L == enqueued[1].len
    IN  /\ \A k \in 1..Len(sinkLog) :
               \A j \in 1..sinkLog[k].size :
                   FrameSample(sinkLog[k], j) =
                       IF (k - 1) * F + j <= L THEN (k - 1) * F + j ELSE 0
        /\ (PacerDone /\ F > 0) => Len(sinkLog) * F >= L

\* Seven samples in frames of six: the second frame holds the last sample
\* and five zeros.
C16_Witness ==
    /\ PacerDone
    /\ frameSizeSamples = 6 /\ enqueued[1].len = 7
    /\ Len(sinkLog) = 2
    /\ sinkLog[2].copied = 1 /\ sinkLog[2].size = 6

\* C17: ttsProcessing is TRUE exactly when one consumer loop of
\* processTtsQueue is running (suspended in a pacing delay between turns).
C17_FlagIffOneConsumer ==
    ttsProcessing <=> Cardinality(consumers) = 1

\* C18: once cleanup() has returned no frame is pushed to the sink, no run
\* appends to ttsQueue and no consumer is started.
C18_QuietAfterCleanup ==
    [][stopped => /\ sinkLog' = sinkLog
                  /\ enqueued' = enqueued
                  /\ consumers' \subseteq consumers]_vars

\* Process p was spawned, was not sent a signal and has not closed.
Alive(p) == procs[p].state = "running" /\ ~procs[p].killed

\* C19: at most one decoder process is alive, at most one flush timer is
\* active, and isStreaming is TRUE exactly when the decoder spawned last is
\* alive.
C19_OneDecoderOneTimer ==
    /\ Cardinality({p \in 1..Len(procs) : Alive(p)}) <= 1
    /\ Cardinality(timers) <= 1
    /\ isStreaming <=> (ffmpegProcess # 0 /\ Alive(ffmpegProcess))

\* C20: sendTtsPcmToJanus returns after finitely many frames for every
\* entry and every configuration: each frame pushed takes at least one
\* sample of the entry, so an entry of L samples is sent in at most L
\* frames, after which the loop is left.
C20_PacerTerminates ==
    /\ \A k \in 1..Len(sinkLog) : sinkLog[k].copied >= 1
    /\ Len(sinkLog) <= enqueued[1].len

====
